---- MODULE Spec2Model ----
(***************************************************************************)
(* VaultX secure journal: the key manager / entry store handlers of the    *)
(* application and the hash-chained audit log (blockchain.js, storage.js,  *)
(* crypto.js).                                                             *)
(*                                                                         *)
(* JavaScript values are modelled as strings; `undefined` (a field that is *)
(* absent, or dropped by JSON.stringify) and `null` are the two sentinel   *)
(* strings below.  A storage key holds NONE (no item) or Some(value).      *)
(* SHA-256, HMAC-SHA256, PBKDF2 and AES-CBC are modelled symbolically:     *)
(* injective constructors over their inputs.  Decryption under a wrong key *)
(* or IV returns one of the results the library can produce, as a set.     *)
(***************************************************************************)
EXTENDS Integers, Sequences, FiniteSets, TLC

VARIABLES
    vault_wrapped_key,   \* SecureStore: NONE or Some([wrapped, wrapIvHex])
    vault_salt,          \* SecureStore: NONE or Some(hex)
    vault_iter,          \* SecureStore: NONE or Some(decimal string)
    vault_created,       \* SecureStore: NONE or Some(ISO time)
    vault_entries,       \* AsyncStorage: NONE or Some(newest-first entries)
    vault_tamper_log,    \* AsyncStorage: NONE or Some(newest-first log items)
    vault_meta,          \* AsyncStorage: NONE or Some([biometricEnabled])
    initialized,         \* App state
    locked,              \* App state
    masterKeyHex,        \* App state: Null or the key held in memory
    entries,             \* App state: entries shown in the list
    viewingEntryPlain,   \* App state: NONE or Some([id, text])
    integrityStatus,     \* App state
    alert,               \* title of the last Alert.alert shown by a handler
    lastOp,              \* history: the last handler run, with its inputs
    verification,        \* history (SpecChain): result of the last verifyChain
    tampered,            \* history (SpecChain): the block changed from outside
    nAppendEvent,        \* history (SpecChain): appendEvent calls so far
    nLegacy,             \* history (SpecChain): direct appendTamperLog calls
    created,             \* history: passphrase and master key of the last createVault
    produced,            \* history: entries as encryptEntry produced them, with their text
    calls                \* the appendEvent calls in flight, each with its position

secureVars == <<vault_wrapped_key, vault_salt, vault_iter, vault_created>>
asyncVars  == <<vault_entries, vault_tamper_log, vault_meta>>
appVars    == <<initialized, locked, masterKeyHex, entries, viewingEntryPlain,
               integrityStatus, alert>>
histVars   == <<lastOp, verification, tampered, nAppendEvent, nLegacy,
               created, produced>>
vars       == <<secureVars, asyncVars, appVars, histVars, calls>>

(***************************************************************************)
(* Bounds of the model                                                     *)
(***************************************************************************)
MaxLog == 3        \* items in vault_tamper_log (chain specification)
MaxAppLog == 7     \* items in vault_tamper_log (application specification)
MaxSessionLog == 10 \* items in vault_tamper_log (several sessions)
MaxEntries == 2    \* journal entries

(***************************************************************************)
(* JavaScript values                                                       *)
(***************************************************************************)
Undefined == "<undefined>"
Null == "<null>"
NoSeq == -1                       \* an item without a numeric seq field

NONE == <<>>
Some(v) == <<v>>

Falsy(v) == v \in {Undefined, Null, ""}
\* a || b
Or(a, b) == IF Falsy(a) THEN b ELSE a

Reverse(s) == [i \in 1..Len(s) |-> s[Len(s) + 1 - i]]

\* new Date().toISOString(): instants the clock can show
Times == {"T1", "T2"}
\* randomHex(8): the nonce is not hashed and no branch depends on its value
Nonces == {"n1"}

\* instants the clock shows while the application handlers run
AppTimes == {"T1"}

\* new Date(s): "D1" is a parsable non-ISO spelling of the instant T1,
\* every other string outside Times is an invalid date
DateValid(s) == s \in Times \cup {"D1"}
DateToISO(s) == IF s = "D1" THEN "T1" ELSE s

\* SHA-256 hex digest: collision-free, never empty
sha256Hex(input) == "sha256(" \o input \o ")"

(***************************************************************************)
(* storage.js: the entry store                                             *)
(***************************************************************************)
loadEntries(store) == IF store = NONE THEN <<>> ELSE store[1]

saveEntries(list) == Some(list)

\* appendEntry: unshift the entry and save the array
appendEntryAtEnd(store, entry) == saveEntries(loadEntries(store) \o <<entry>>)

\* entries.unshift(entry)
appendEntry(store, entry) == saveEntries(<<entry>> \o loadEntries(store))

(***************************************************************************)
(* crypto.js: symbolic PBKDF2, AES-256-CBC and HMAC-SHA256                 *)
(***************************************************************************)
PBKDF2_ITERATIONS == 100000

\* randomHex(32): master keys the generator can return
MasterKeys == {"K1"}
\* "f".repeat(64)
FakeMaster == "ff"
\* randomHex(16): salt and wrap IV
Salts == {"S1"}
WrapIvs == {"W1"}
\* randomHex(16): entry IVs
EntryIvs == {"i1", "i2"}
\* plaintexts typed into the new-entry box
Texts == {"hello vault", "second"}
\* passphrases typed into the two set-up boxes
Passphrases == {"", "short", "correct-horse-battery1"}
\* passphrases typed into the unlock box
Attempts == {"correct-horse-battery1", "correct-horse-battery2"}

\* the right key with the wrong IV: 32 garbled bytes
Garbled == "garbled"
\* a wrong key: 48 arbitrary bytes, of which Pkcs7 unpadding drops as many
\* as the last byte says, without checking them: none are left, or a few,
\* or (last byte 0x10) 32 of them
Mangled == "mangled"
Garbage == {"", "9e", Mangled}
\* toString(CryptoJS.enc.Utf8) on bytes that are not UTF-8 throws
Throws == "<throws>"

\* length of a hex string; the symbolic 32-byte values count 64 digits
HexLength(hex) ==
    IF hex \in MasterKeys \cup {FakeMaster, Garbled, Mangled} THEN 64 ELSE Len(hex)

deriveKeyPBKDF2(passphrase, saltHex, iterations) ==
    "pbkdf2(" \o passphrase \o "," \o saltHex \o "," \o ToString(iterations) \o ")"

\* CryptoJS.AES.encrypt(plaintext, key, { iv, CBC, Pkcs7 }).toString()
AesEncrypt(plaintext, key, ivHex) ==
    "aes(" \o key \o "," \o ivHex \o "," \o plaintext \o ")"

wrapMasterKey(masterHex, wrapKeyWA, wrapIvHex) ==
    AesEncrypt(masterHex, wrapKeyWA, wrapIvHex)

\* unwrapMasterKey: the hex strings the decryption can return
unwrapMasterKey(wrappedBase64, wrapKeyWA, wrapIvHex) ==
    IF \E m \in MasterKeys : wrappedBase64 = wrapMasterKey(m, wrapKeyWA, wrapIvHex)
    THEN {m \in MasterKeys : wrappedBase64 = wrapMasterKey(m, wrapKeyWA, wrapIvHex)}
    ELSE IF \E m \in MasterKeys, iv \in WrapIvs :
                wrappedBase64 = wrapMasterKey(m, wrapKeyWA, iv)
    THEN {Garbled}
    ELSE Garbage

\* parseInt(iterStr, 10)
ParseInt(str) ==
    IF str = ToString(PBKDF2_ITERATIONS) THEN PBKDF2_ITERATIONS ELSE 0

\* CryptoJS.HmacSHA256(input, SHA256(masterKey)).toString(Hex)
HmacSHA256(input, masterHex) ==
    "hmac(" \o sha256Hex(masterHex) \o "," \o input \o ")"

\* encryptEntryWithMaster: { ivHex, ciphertextB64, hmac, ts }
encryptEntryWithMaster(masterHex, plaintext, ivHex, ts) ==
    LET ciphertextB64 == AesEncrypt(plaintext, masterHex, ivHex)
    IN  [ivHex |-> ivHex, ciphertextB64 |-> ciphertextB64,
         hmac |-> HmacSHA256(ivHex \o "|" \o ciphertextB64 \o "|" \o ts,
                             masterHex),
         ts |-> ts]

\* only the presence of an hmac is checked
verifyEntryHMACPresenceOnly(masterHex, entry) == ~Falsy(entry.hmac)

\* the HMAC input built from entry.ts, a field entries do not have
verifyEntryHMACWrongField(masterHex, entry) ==
    HmacSHA256(entry.iv \o "|" \o entry.ciphertext \o "|" \o "undefined",
               masterHex) = entry.hmac

verifyEntryHMAC(masterHex, entry) ==
    HmacSHA256(entry.iv \o "|" \o entry.ciphertext \o "|" \o entry.timestamp,
               masterHex) = entry.hmac

\* decryptEntryWithMaster: the strings the decryption can return, or Throws
decryptEntryWithMaster(masterHex, entry) ==
    IF \E t \in Texts : entry.ciphertext = AesEncrypt(t, masterHex, entry.iv)
    THEN {t \in Texts : entry.ciphertext = AesEncrypt(t, masterHex, entry.iv)}
    ELSE {Throws, ""}

(***************************************************************************)
(* storage.js: the tamper log                                              *)
(***************************************************************************)
\* loadTamperLog: the stored array, [] when the key holds nothing
loadTamperLog(store) == IF store = NONE THEN <<>> ELSE store[1]

\* appendTamperLog: unshift the item and write the array back
appendTamperLog(store, eventObj) == Some(<<eventObj>> \o loadTamperLog(store))

(***************************************************************************)
(* blockchain.js                                                           *)
(***************************************************************************)
\* A log item carries every field the code reads; Undefined marks an absent
\* one.  raw is <<>> (no _raw field) or <<the item kept under _raw>>.
\* An item as the application's direct appendTamperLog calls write it:
\* { ts, event, detail?, id? }
LegacyItem(ts, event, detail, id) ==
    [seq |-> NoSeq, ts |-> ts, timestamp |-> Undefined, nonce |-> Undefined,
     event |-> event, type |-> Undefined, detail |-> detail,
     message |-> Undefined, id |-> id, file |-> Undefined, hash |-> Undefined,
     custody |-> Undefined, signature |-> Undefined,
     prevHash |-> Undefined, blockHash |-> Undefined, raw |-> <<>>]

\* String(b.seq || "")
SeqString(seq) == IF seq = NoSeq \/ seq = 0 THEN "" ELSE ToString(seq)

\* the detail field left out of the canonical string
canonicalStringWithoutDetail(b) ==
    SeqString(b.seq) \o "|" \o Or(b.ts, "") \o "|" \o Or(b.event, "") \o "|"
    \o Or(b.id, "") \o "|" \o Or(b.file, "") \o "|"
    \o Or(b.hash, "") \o "|" \o Or(b.signature, "") \o "|" \o Or(b.prevHash, "")

\* the nonce joined into the canonical string as a tenth part
canonicalStringWithNonce(b) ==
    SeqString(b.seq) \o "|" \o Or(b.ts, "") \o "|" \o Or(b.event, "") \o "|"
    \o Or(b.detail, "") \o "|" \o Or(b.id, "") \o "|" \o Or(b.file, "") \o "|"
    \o Or(b.hash, "") \o "|" \o Or(b.signature, "") \o "|" \o Or(b.prevHash, "")
    \o "|" \o Or(b.nonce, "")

canonicalStringForBlock(b) ==
    SeqString(b.seq) \o "|" \o Or(b.ts, "") \o "|" \o Or(b.event, "") \o "|"
    \o Or(b.detail, "") \o "|" \o Or(b.id, "") \o "|" \o Or(b.file, "") \o "|"
    \o Or(b.hash, "") \o "|" \o Or(b.signature, "") \o "|" \o Or(b.prevHash, "")

computeBlockHash(block) == sha256Hex(canonicalStringForBlock(block))

\* every non-empty log is rebuilt
needMigrationAlways(raw) == Len(raw) > 0

\* raw.some(item => !item.blockHash || typeof item.prevHash === "undefined")
needMigration(raw) ==
    \E i \in 1..Len(raw) : Falsy(raw[i].blockHash) \/ raw[i].prevHash = Undefined

\* the timestamp chosen for a rebuilt block
tsISO(item, now) ==
    LET src == Or(Or(item.ts, item.timestamp), "")
    IN  IF DateValid(src) THEN DateToISO(src)
        ELSE Or(Or(item.ts, item.timestamp), now)

\* block.blockHash = computed, stored under the wrong field name
MigrateBlockWrongField(item, i, prevHash, now, nonce) ==
    LET block == [seq |-> i, ts |-> tsISO(item, now), timestamp |-> Undefined,
                  nonce |-> Or(item.nonce, nonce),
                  event |-> Or(Or(item.event, item.type), "event"),
                  type |-> Undefined,
                  detail |-> Or(Or(item.detail, item.message), ""),
                  message |-> Undefined,
                  id |-> item.id, file |-> item.file, hash |-> item.hash,
                  custody |-> item.custody, signature |-> item.signature,
                  prevHash |-> Or(prevHash, Null),
                  blockHash |-> Undefined,
                  raw |-> IF item.raw # <<>> THEN item.raw ELSE <<item>>]
    IN  [block EXCEPT !.hash = computeBlockHash(block)]

\* one iteration of the rebuild loop of ensureMigrated
MigrateBlock(item, i, prevHash, now, nonce) ==
    LET block == [seq |-> i, ts |-> tsISO(item, now), timestamp |-> Undefined,
                  nonce |-> Or(item.nonce, nonce),
                  event |-> Or(Or(item.event, item.type), "event"),
                  type |-> Undefined,
                  detail |-> Or(Or(item.detail, item.message), ""),
                  message |-> Undefined,
                  id |-> item.id, file |-> item.file, hash |-> item.hash,
                  custody |-> item.custody, signature |-> item.signature,
                  prevHash |-> Or(prevHash, Null),
                  blockHash |-> Undefined,
                  raw |-> IF item.raw # <<>> THEN item.raw ELSE <<item>>]
    IN  [block EXCEPT !.blockHash = computeBlockHash(block)]

\* the rebuild loop: chronological items in, chronological blocks out
RECURSIVE Rebuild(_, _, _, _, _)
Rebuild(chronological, i, prevHash, now, nonce) ==
    IF i > Len(chronological) THEN <<>>
    ELSE LET block == MigrateBlock(chronological[i], i, prevHash, now, nonce)
         IN  <<block>> \o Rebuild(chronological, i + 1, block.blockHash, now, nonce)

\* the rebuilt array persisted without the final reverse
ensureMigratedOldestFirst(store, now, nonce) ==
    LET raw == loadTamperLog(store)
    IN  IF Len(raw) = 0 THEN store
        ELSE IF ~needMigration(raw) THEN store
        ELSE Some(Rebuild(Reverse(raw), 1, Null, now, nonce))

\* ensureMigrated: the content of vault_tamper_log afterwards
ensureMigrated(store, now, nonce) ==
    LET raw == loadTamperLog(store)
    IN  IF Len(raw) = 0 THEN store
        ELSE IF ~needMigration(raw) THEN store
        ELSE Some(Reverse(Rebuild(Reverse(raw), 1, Null, now, nonce)))

\* highest numeric seq among the items (0 when none)
RECURSIVE LastSeq(_)
LastSeq(existing) ==
    IF existing = <<>> THEN 0
    ELSE LET rest == LastSeq(Tail(existing))
             it == Head(existing)
         IN  IF it.seq # NoSeq /\ it.seq > rest THEN it.seq ELSE rest

\* a partial event handed to appendEvent: { event, detail?, id? }
Partial(event, detail, id) ==
    [event |-> event, type |-> Undefined, detail |-> detail,
     message |-> Undefined, id |-> id, file |-> Undefined, hash |-> Undefined,
     custody |-> Undefined, signature |-> Undefined]

\* the reduce compares with < : the item with the lowest seq is chosen
MaxSeqItemLess(existing, i, acc) ==
    IF Len(existing) = 0 THEN acc
    ELSE <<existing[CHOOSE k \in 1..Len(existing) :
                \A j \in 1..Len(existing) : existing[k].seq <= existing[j].seq]>>

\* existing.reduce(...): the first item with the highest seq
RECURSIVE MaxSeqItem(_, _, _)
MaxSeqItem(existing, i, acc) ==
    IF i > Len(existing) THEN acc
    ELSE LET cur == existing[i]
             accSeq == IF acc[1].seq = NoSeq THEN 0 ELSE acc[1].seq
         IN  IF acc = <<>> THEN MaxSeqItem(existing, i + 1, <<cur>>)
             ELSE IF cur.seq # NoSeq /\ cur.seq > accSeq
                  THEN MaxSeqItem(existing, i + 1, <<cur>>)
                  ELSE MaxSeqItem(existing, i + 1, acc)

\* the block appendEvent builds, with prevHash left null
NewBlockUnlinked(existing, ev, now, nonce) ==
    LET lastSeq == LastSeq(existing)
        block == [seq |-> lastSeq + 1, ts |-> now, timestamp |-> Undefined,
                  nonce |-> nonce,
                  event |-> Or(Or(ev.event, ev.type), "event"),
                  type |-> Undefined,
                  detail |-> Or(Or(ev.detail, ev.message), ""),
                  message |-> Undefined,
                  id |-> ev.id, file |-> ev.file, hash |-> ev.hash,
                  custody |-> ev.custody, signature |-> ev.signature,
                  prevHash |-> Null,
                  blockHash |-> Undefined, raw |-> <<>>]
    IN  [block EXCEPT !.blockHash = computeBlockHash(block)]

\* the block appendEvent builds on top of `existing`
NewBlock(existing, ev, now, nonce) ==
    LET lastSeq == LastSeq(existing)
        maxSeqItem == MaxSeqItem(existing, 1, <<>>)
        lastBlockHash == IF maxSeqItem # <<>> /\ ~Falsy(maxSeqItem[1].blockHash)
                         THEN maxSeqItem[1].blockHash ELSE Null
        block == [seq |-> lastSeq + 1, ts |-> now, timestamp |-> Undefined,
                  nonce |-> nonce,
                  event |-> Or(Or(ev.event, ev.type), "event"),
                  type |-> Undefined,
                  detail |-> Or(Or(ev.detail, ev.message), ""),
                  message |-> Undefined,
                  id |-> ev.id, file |-> ev.file, hash |-> ev.hash,
                  custody |-> ev.custody, signature |-> ev.signature,
                  prevHash |-> Or(lastBlockHash, Null),
                  blockHash |-> Undefined, raw |-> <<>>]
    IN  [block EXCEPT !.blockHash = computeBlockHash(block)]

\* appendEvent: the content of vault_tamper_log afterwards
appendEvent(store, ev, now, nonce) ==
    LET migrated == ensureMigrated(store, now, nonce)
    IN  appendTamperLog(migrated, NewBlock(loadTamperLog(migrated), ev, now, nonce))

\* the stored array returned without reversing it
loadChainNoReverse(store) == loadTamperLog(store)

\* loadChain: the chronological chain returned (after ensureMigrated)
loadChain(store) == Reverse(loadTamperLog(store))

\* the loop carrying the recomputed hash forward instead of the stored one
RECURSIVE VerifyFromComputed(_, _, _)
VerifyFromComputed(chain, i, prev) ==
    IF i > Len(chain) THEN <<>>
    ELSE LET r == chain[i]
             computed == computeBlockHash(r)
             prevMatches == (Or(r.prevHash, "") = Or(prev, ""))
             blockMatches == (Or(r.blockHash, "") = Or(computed, ""))
         IN  <<[seq |-> r.seq, computed |-> computed,
                stored |-> Or(r.blockHash, Null),
                prevStored |-> Or(r.prevHash, Null),
                prevMatches |-> prevMatches, blockMatches |-> blockMatches]>>
             \o VerifyFromComputed(chain, i + 1, Or(computed, Null))

\* the loop comparing blockHash only, not the link to the previous block
RECURSIVE VerifyFromBlockOnly(_, _, _)
VerifyFromBlockOnly(chain, i, prev) ==
    IF i > Len(chain) THEN <<>>
    ELSE LET r == chain[i]
             computed == computeBlockHash(r)
             blockMatches == (Or(r.blockHash, "") = Or(computed, ""))
         IN  <<[seq |-> r.seq, computed |-> computed,
                stored |-> Or(r.blockHash, Null),
                prevStored |-> Or(r.prevHash, Null),
                prevMatches |-> TRUE, blockMatches |-> blockMatches]>>
             \o VerifyFromBlockOnly(chain, i + 1, Or(Or(r.blockHash, computed), Null))

\* the per-block loop of verifyChain
RECURSIVE VerifyFrom(_, _, _)
VerifyFrom(chain, i, prev) ==
    IF i > Len(chain) THEN <<>>
    ELSE LET r == chain[i]
             computed == computeBlockHash(r)
             prevMatches == (Or(r.prevHash, "") = Or(prev, ""))
             blockMatches == (Or(r.blockHash, "") = Or(computed, ""))
         IN  <<[seq |-> r.seq, computed |-> computed,
                stored |-> Or(r.blockHash, Null),
                prevStored |-> Or(r.prevHash, Null),
                prevMatches |-> prevMatches, blockMatches |-> blockMatches]>>
             \o VerifyFrom(chain, i + 1, Or(Or(r.blockHash, computed), Null))

Breaks(details) ==
    Cardinality({i \in 1..Len(details) :
                    ~details[i].prevMatches \/ ~details[i].blockMatches})

\* verifyChain on an already migrated store: the value returned
verifyChain(store) ==
    LET chain == loadChain(store)
        details == VerifyFrom(chain, 1, Null)
        last == chain[Len(chain)]
    IN  IF Len(chain) = 0
        THEN [ok |-> TRUE, breaks |-> 0, head |-> Null, details |-> <<>>]
        ELSE [ok |-> Breaks(details) = 0, breaks |-> Breaks(details),
              head |-> Or(Or(last.blockHash, computeBlockHash(last)), Null),
              details |-> details]

\* the blockHash of the oldest block instead of the newest
getHeadFingerprintFirst(store) ==
    LET chain == loadChain(store)
    IN  IF Len(chain) = 0 THEN Null ELSE Or(chain[1].blockHash, Null)

\* getHeadFingerprint on an already migrated store
getHeadFingerprint(store) ==
    LET chain == loadChain(store)
    IN  IF Len(chain) = 0 THEN Null ELSE Or(chain[Len(chain)].blockHash, Null)

\* verifyChain(): ensureMigrated, loadChain (ensureMigrated again), the walk
verifyChainResult(store, now, nonce) ==
    verifyChain(ensureMigrated(ensureMigrated(store, now, nonce), now, nonce))

\* FileSystem.documentDirectory || FileSystem.cacheDirectory
Dirs == {Null, "file:///doc/"}

\* exportChainFiles: whether it threw, the content of vault_tamper_log
\* afterwards, the lines of the .jsonl file and the manifest
exportChainFiles(store, dir, now, nonce) ==
    IF Falsy(dir)
    THEN [threw |-> TRUE, store |-> store, lines |-> <<>>,
          manifest |-> [count |-> 0, chainHead |-> Null, ok |-> FALSE, breaks |-> 0]]
    ELSE LET loaded == ensureMigrated(store, now, nonce)
             chain == loadChain(loaded)
             verified == ensureMigrated(ensureMigrated(loaded, now, nonce), now, nonce)
             v == verifyChain(verified)
         IN  [threw |-> FALSE, store |-> verified, lines |-> chain,
              manifest |-> [count |-> Len(chain), chainHead |-> Or(v.head, Null),
                            ok |-> v.ok, breaks |-> v.breaks]]

NoResult == [ok |-> FALSE, breaks |-> -1, head |-> Null, details |-> <<>>]

(***************************************************************************)
(* Initial state: a fresh install after the start-up effect has run        *)
(***************************************************************************)
\* appendEvent calls that can be awaiting storage at the same time
CallIds == {1, 2}
Idle == [pc |-> "idle", block |-> <<>>, log |-> <<>>, raced |-> FALSE]

NoTamper == [seq |-> 0, afterOk |-> FALSE, fresh |-> FALSE]
NoVault == [pass |-> Null, key |-> Null, wiped |-> FALSE]

Init ==
    /\ vault_wrapped_key = NONE /\ vault_salt = NONE
    /\ vault_iter = NONE /\ vault_created = NONE
    /\ vault_entries = NONE /\ vault_tamper_log = NONE /\ vault_meta = NONE
    /\ initialized = FALSE /\ locked = TRUE /\ masterKeyHex = Null
    /\ entries = <<>> /\ viewingEntryPlain = NONE
    /\ integrityStatus = "Unknown" /\ alert = ""
    /\ lastOp = [op |-> "start"]
    /\ verification = NoResult
    /\ tampered = NoTamper
    /\ nAppendEvent = 0 /\ nLegacy = 0
    /\ created = NoVault /\ produced = {}
    /\ calls = [c \in CallIds |-> Idle]

(***************************************************************************)
(* The audit chain on its own: blockchain.js driven call by call           *)
(***************************************************************************)
ChainEvents ==
    { Partial("unlocked", "success", Undefined),
      Partial(Undefined, Undefined, "e1") }

\* items written without chain fields (storage.appendTamperLog called directly)
LegacyItems ==
    { LegacyItem("D1", "integrity_check", "1 ok, 0 fail", Undefined),
      LegacyItem("bad", "dev_unlocked", Undefined, Undefined),
      LegacyItem(Undefined, Undefined, Undefined, "e1") }

\* values of the two fields of the block blueprint that are not hashed:
\* <<nonce, custody>>
NonceCustodyValues ==
    {<<Undefined, Undefined>>, <<"n1", "officer-7">>, <<"n2", Undefined>>}

\* values an outside writer puts into a block's detail field
TamperDetails == {"", "success", "x|y"}

LogLen == Len(loadTamperLog(vault_tamper_log))

\* blockchain.appendEvent(ev)
ChainAppendEvent(ev, now, nonce) ==
    /\ UNCHANGED calls
    /\ LogLen < MaxLog
    /\ vault_tamper_log' = appendEvent(vault_tamper_log, ev, now, nonce)
    /\ nAppendEvent' = nAppendEvent + 1
    /\ verification' = NoResult
    /\ tampered' = [tampered EXCEPT !.fresh = FALSE]
    /\ lastOp' = [op |-> "appendEvent"]
    /\ UNCHANGED <<secureVars, vault_entries, vault_meta, appVars, nLegacy,
                   created, produced>>

\* storage.appendTamperLog(item) called directly
ChainAppendTamperLog(item) ==
    /\ UNCHANGED calls
    /\ LogLen < MaxLog
    /\ vault_tamper_log' = appendTamperLog(vault_tamper_log, item)
    /\ nLegacy' = nLegacy + 1
    /\ verification' = NoResult
    /\ tampered' = [tampered EXCEPT !.fresh = FALSE]
    /\ lastOp' = [op |-> "appendTamperLog"]
    /\ UNCHANGED <<secureVars, vault_entries, vault_meta, appVars, nAppendEvent,
                   created, produced>>

\* blockchain.verifyChain(): ensureMigrated, then loadChain (ensureMigrated
\* again), then the walk
ChainVerify(now, nonce) ==
    LET once == ensureMigrated(vault_tamper_log, now, nonce)
        twice == ensureMigrated(once, now, nonce)
    IN  /\ UNCHANGED calls
        /\ vault_tamper_log' = twice
        /\ verification' = verifyChain(twice)
        /\ lastOp' = [op |-> "verifyChain"]
        /\ UNCHANGED <<secureVars, vault_entries, vault_meta, appVars,
                       tampered, nAppendEvent, nLegacy, created, produced>>

\* an outside writer changes the detail field of one stored item
ChainTamperDetail(i, d) ==
    LET log == loadTamperLog(vault_tamper_log)
    IN  /\ UNCHANGED calls
        /\ tampered.seq = 0
        /\ i \in 1..Len(log)
        /\ log[i].seq # NoSeq
        /\ log[i].detail # d
        /\ vault_tamper_log' = Some([log EXCEPT ![i].detail = d])
        /\ tampered' = [seq |-> log[i].seq,
                        afterOk |-> verification # NoResult /\ verification.ok,
                        fresh |-> TRUE]
        /\ verification' = NoResult
        /\ lastOp' = [op |-> "tamper"]
        /\ UNCHANGED <<secureVars, vault_entries, vault_meta, appVars,
                       nAppendEvent, nLegacy, created, produced>>

\* blockchain.exportChainFiles()
ChainExport(dir, now, nonce) ==
    LET r == exportChainFiles(vault_tamper_log, dir, now, nonce)
    IN  /\ UNCHANGED calls
        /\ vault_tamper_log' = r.store
        /\ lastOp' = [op |-> "exportChainFiles", threw |-> r.threw,
                       manifest |-> r.manifest]
        /\ UNCHANGED <<secureVars, vault_entries, vault_meta, appVars,
                       verification, tampered, nAppendEvent, nLegacy,
                       created, produced>>

NextChain ==
    \/ \E ev \in ChainEvents, now \in Times, nonce \in Nonces :
          ChainAppendEvent(ev, now, nonce)
    \/ \E item \in LegacyItems : ChainAppendTamperLog(item)
    \/ \E now \in Times, nonce \in Nonces : ChainVerify(now, nonce)
    \/ \E i \in 1..MaxLog + 1, d \in TamperDetails : ChainTamperDetail(i, d)

SpecChain == Init /\ [][NextChain]_vars

\* the stored log under appends, direct writes, an outside writer and
\* exports
NextExport ==
    \/ \E ev \in ChainEvents, now \in Times, nonce \in Nonces :
          ChainAppendEvent(ev, now, nonce)
    \/ \E item \in LegacyItems : ChainAppendTamperLog(item)
    \/ \E i \in 1..MaxLog + 1, d \in TamperDetails : ChainTamperDetail(i, d)
    \/ \E dir \in Dirs, now \in Times, nonce \in Nonces : ChainExport(dir, now, nonce)

SpecExport == Init /\ [][NextExport]_vars

(***************************************************************************)
(* appendEvent as the awaits split it: two calls in flight on one log.     *)
(* The log holds chained blocks only, so ensureMigrated writes nothing.    *)
(***************************************************************************)
InFlight == {c \in CallIds : calls[c].pc \in {"built", "read"}}

\* appendEvent up to `const computed = await sha256Hex(canon)`: the log is
\* loaded and the block built on it
CallBuild(c, ev, now, nonce) ==
    /\ calls[c].pc = "idle"
    /\ LogLen + Cardinality(InFlight) < MaxLog
    /\ calls' = [calls EXCEPT ![c] =
                    [pc |-> "built",
                     block |-> <<NewBlock(loadTamperLog(ensureMigrated(vault_tamper_log,
                                                                       now, nonce)),
                                          ev, now, nonce)>>,
                     log |-> <<>>,
                     raced |-> InFlight # {}]]
    /\ UNCHANGED <<secureVars, asyncVars, appVars, histVars>>

\* storage.appendTamperLog: `const log = await loadTamperLog()`
CallRead(c) ==
    /\ calls[c].pc = "built"
    /\ calls' = [calls EXCEPT ![c].pc = "read",
                              ![c].log = loadTamperLog(vault_tamper_log)]
    /\ UNCHANGED <<secureVars, asyncVars, appVars, histVars>>

\* storage.appendTamperLog: log.unshift(eventObj) and setItem; appendEvent
\* returns the block
CallWrite(c) ==
    /\ calls[c].pc = "read"
    /\ vault_tamper_log' = Some(calls[c].block \o calls[c].log)
    /\ calls' = [calls EXCEPT ![c].pc = "done", ![c].log = <<>>]
    /\ nAppendEvent' = nAppendEvent + 1
    /\ lastOp' = [op |-> "appendEvent"]
    /\ UNCHANGED <<secureVars, vault_entries, vault_meta, appVars, verification,
                   tampered, nLegacy, created, produced>>

\* both calls have returned; the next two can be made
CallsReturn ==
    /\ \A c \in CallIds : calls[c].pc = "done"
    /\ calls' = [c \in CallIds |-> Idle]
    /\ UNCHANGED <<secureVars, asyncVars, appVars, histVars>>

NextRace ==
    \/ \E c \in CallIds, ev \in ChainEvents, now \in Times, nonce \in Nonces :
          CallBuild(c, ev, now, nonce)
    \/ \E c \in CallIds : CallRead(c)
    \/ \E c \in CallIds : CallWrite(c)
    \/ CallsReturn

SpecRace == Init /\ [][NextRace]_vars

(***************************************************************************)
(* The application: the handlers of App() (app/index.tsx as printed in     *)
(* README.md, the version wired to blockchain.js), one action per handler  *)
(***************************************************************************)
Log == loadTamperLog(vault_tamper_log)

MinPassphraseLength == 12

\* the passphrase is accepted whenever it is not empty
IsWeakOnlyEmpty(pass) == pass = ""

\* setupPassA.length < 12
IsWeak(pass) == Len(pass) < MinPassphraseLength

\* !(!masterHex || masterHex.length !== 64)
UnwrapAccepted(masterHex) == ~Falsy(masterHex) /\ HexLength(masterHex) = 64

\* !newEntryText || !newEntryText.trim()
IsBlank(text) == text \in {"", " "}

\* verifyIntegrity(masterHex): status, and the log after its two appends
IntegrityDetail(masterHex, loaded) ==
    LET okCount == Cardinality({i \in 1..Len(loaded) : verifyEntryHMAC(masterHex, loaded[i])})
        failCount == Len(loaded) - okCount
    IN  [status |-> IF failCount = 0 THEN "Verified" ELSE "Fail",
         detail |-> ToString(okCount) \o " ok, " \o ToString(failCount) \o " fail"]

\* verifyIntegrity leaving one record per check instead of two
verifyIntegritySingleAppend(masterHex, log, now, nonce) ==
    LET r == IntegrityDetail(masterHex, loadEntries(vault_entries))
    IN  [status |-> r.status,
         log |-> appendEvent(log, Partial("integrity_check", r.detail, Undefined),
                             now, nonce)]

verifyIntegrity(masterHex, log, now, nonce) ==
    LET r == IntegrityDetail(masterHex, loadEntries(vault_entries))
        direct == appendTamperLog(log, LegacyItem(now, "integrity_check", r.detail, Undefined))
    IN  [status |-> r.status,
         log |-> appendEvent(direct, Partial("integrity_check", r.detail, Undefined), now, nonce)]

SetupScreen == ~initialized
LockedScreen == initialized /\ locked
MainScreen == initialized /\ ~locked /\ viewingEntryPlain = NONE

chainHist == <<verification, tampered, nAppendEvent, nLegacy>>

\* handleCreateVault
CreateVault(passA, passB, masterHex, saltHex, wrapIvHex, now, nonce) ==
    /\ UNCHANGED calls
    /\ SetupScreen
    /\ lastOp' = [op |-> "createVault", pass |-> passA, confirm |-> passB]
    /\ IF passA = "" \/ passA # passB
       THEN /\ alert' = "Passphrase mismatch"
            /\ UNCHANGED <<secureVars, asyncVars, initialized, locked, masterKeyHex,
                           entries, viewingEntryPlain, integrityStatus,
                           chainHist, created, produced>>
       ELSE IF IsWeak(passA)
       THEN /\ alert' = "Weak passphrase"
            /\ UNCHANGED <<secureVars, asyncVars, initialized, locked, masterKeyHex,
                           entries, viewingEntryPlain, integrityStatus,
                           chainHist, created, produced>>
       ELSE /\ vault_wrapped_key' =
                  Some([wrapped |-> wrapMasterKey(masterHex,
                                       deriveKeyPBKDF2(passA, saltHex, PBKDF2_ITERATIONS),
                                       wrapIvHex),
                        wrapIvHex |-> wrapIvHex])
            /\ vault_salt' = Some(saltHex)
            /\ vault_iter' = Some(ToString(PBKDF2_ITERATIONS))
            /\ vault_created' = Some(now)
            /\ vault_entries' = saveEntries(<<>>)
            /\ vault_meta' = Some([biometricEnabled |-> FALSE])
            /\ vault_tamper_log' =
                  appendEvent(Some(<<>>),
                              Partial("vault_created", "initialization", Undefined),
                              now, nonce)
            /\ initialized' = TRUE /\ locked' = TRUE
            /\ entries' = <<>>
            /\ alert' = ""
            /\ created' = [pass |-> passA, key |-> masterHex, wiped |-> FALSE]
            /\ produced' = {}
            /\ UNCHANGED <<masterKeyHex, viewingEntryPlain, integrityStatus, chainHist>>

\* no alert was shown
NoAlert == -1

\* what the unlock handler did last: the passphrase typed, the number of
\* stored log items when it started and when its alert went up
UnlockOp(pass, at) ==
    [op |-> "unlock", pass |-> pass, wiped |-> created.wiped,
     logBefore |-> Len(Log), alertAt |-> at]

\* a vault_wrapped_key item that is not the JSON text handleCreateVault wrote
Undecodable == [text |-> "not-json"]
\* JSON.parse(wrappedObjStr) returns an object
JsonParses(item) == "wrapped" \in DOMAIN item
\* e.message of the SyntaxError JSON.parse throws
SyntaxErrorMessage == "JSON Parse error"

\* handleUnlock
Unlock(pass, bio, now, nonce) ==
    /\ UNCHANGED calls
    /\ LockedScreen
    /\ UNCHANGED <<secureVars, vault_entries, vault_meta, initialized,
                   viewingEntryPlain, chainHist, created, produced>>
    /\ IF vault_wrapped_key = NONE \/ vault_salt = NONE \/ vault_iter = NONE
       THEN /\ alert' = "Vault not initialized"
            /\ lastOp' = UnlockOp(pass, Len(Log))
            /\ UNCHANGED <<vault_tamper_log, locked, masterKeyHex, entries,
                           integrityStatus>>
       ELSE LET iter == ParseInt(vault_iter[1])
                wrapped == vault_wrapped_key[1].wrapped
                wrapIvHex == vault_wrapped_key[1].wrapIvHex
                meta == IF vault_meta = NONE THEN [biometricEnabled |-> FALSE]
                        ELSE vault_meta[1]
                wrapKeyWA == deriveKeyPBKDF2(pass, vault_salt[1], iter)
            IN  IF ~JsonParses(vault_wrapped_key[1])
                   THEN /\ alert' = "Error"
                        /\ lastOp' = UnlockOp(pass, Len(Log))
                        /\ vault_tamper_log' =
                              appendEvent(vault_tamper_log,
                                  Partial("unlock_failed", SyntaxErrorMessage, Undefined),
                                  now, nonce)
                        /\ UNCHANGED <<locked, masterKeyHex, entries, integrityStatus>>
                   ELSE IF meta.biometricEnabled /\ bio = "failed"
                   THEN /\ alert' = "Biometric failed"
                        /\ lastOp' = UnlockOp(pass, Len(Log))
                        /\ vault_tamper_log' =
                              appendEvent(vault_tamper_log,
                                  Partial("unlock_failed", "biometric_failed", Undefined),
                                  now, nonce)
                        /\ UNCHANGED <<locked, masterKeyHex, entries, integrityStatus>>
                   ELSE \E masterHex \in unwrapMasterKey(wrapped, wrapKeyWA, wrapIvHex) :
                        IF ~UnwrapAccepted(masterHex)
                        THEN /\ vault_tamper_log' =
                                   appendEvent(vault_tamper_log,
                                       Partial("unlock_failed", "wrong_passphrase", Undefined),
                                       now, nonce)
                             /\ alert' = "Unlock failed"
                             /\ lastOp' = UnlockOp(pass, Len(loadTamperLog(vault_tamper_log')))
                             /\ UNCHANGED <<locked, masterKeyHex, entries, integrityStatus>>
                        ELSE LET vi == verifyIntegrity(masterHex, vault_tamper_log, now, nonce)
                             IN  /\ masterKeyHex' = masterHex
                                 /\ locked' = FALSE
                                 /\ entries' = loadEntries(vault_entries)
                                 /\ integrityStatus' = vi.status
                                 /\ vault_tamper_log' =
                                       appendEvent(vi.log,
                                           Partial("unlocked", "success", Undefined),
                                           now, nonce)
                                 /\ alert' = ""
                                 /\ lastOp' = UnlockOp(pass, NoAlert)

\* the "Use Biometric" button: on success it calls handleDevUnlock
BiometricUnlock(res, now, nonce) ==
    /\ UNCHANGED calls
    /\ LockedScreen
    /\ lastOp' = [op |-> "biometric", res |-> res]
    /\ UNCHANGED <<secureVars, vault_entries, vault_meta, initialized,
                   viewingEntryPlain, chainHist, created, produced>>
    /\ IF res = "unavailable"
       THEN /\ alert' = "Unavailable"
            /\ UNCHANGED <<vault_tamper_log, locked, masterKeyHex, entries, integrityStatus>>
       ELSE IF res = "cancelled"
       THEN /\ alert' = "Biometric failed"
            /\ UNCHANGED <<vault_tamper_log, locked, masterKeyHex, entries, integrityStatus>>
       ELSE /\ masterKeyHex' = FakeMaster
            /\ locked' = FALSE
            /\ integrityStatus' = "Verified"
            /\ entries' = loadEntries(vault_entries)
            /\ vault_tamper_log' =
                  appendEvent(vault_tamper_log,
                              Partial("Biometric_Unlock ", "Success", Undefined),
                              now, nonce)
            /\ alert' = ""

\* handleLock without setMasterKeyHex(null)
LockKeepsKey(now, nonce) ==
    /\ UNCHANGED calls
    /\ MainScreen
    /\ locked' = TRUE
    /\ viewingEntryPlain' = NONE
    /\ vault_tamper_log' =
          appendEvent(vault_tamper_log, Partial("locked", "user_lock", Undefined),
                      now, nonce)
    /\ alert' = ""
    /\ lastOp' = [op |-> "lock"]
    /\ UNCHANGED <<secureVars, vault_entries, vault_meta, initialized, entries,
                   masterKeyHex, integrityStatus, chainHist, created, produced>>

\* handleLock
Lock(now, nonce) ==
    /\ UNCHANGED calls
    /\ MainScreen
    /\ masterKeyHex' = Null
    /\ locked' = TRUE
    /\ viewingEntryPlain' = NONE
    /\ vault_tamper_log' =
          appendEvent(vault_tamper_log, Partial("locked", "user_lock", Undefined),
                      now, nonce)
    /\ alert' = ""
    /\ lastOp' = [op |-> "lock"]
    /\ UNCHANGED <<secureVars, vault_entries, vault_meta, initialized, entries,
                   integrityStatus, chainHist, created, produced>>

\* handleSaveNewEntry
SaveNewEntry(text, ivHex, now, nonce) ==
    /\ UNCHANGED calls
    /\ MainScreen
    /\ Len(loadEntries(vault_entries)) < MaxEntries
    /\ \A i \in 1..Len(loadEntries(vault_entries)) :
          loadEntries(vault_entries)[i].iv # ivHex
    /\ lastOp' = [op |-> "saveNewEntry", text |-> text]
    /\ UNCHANGED <<secureVars, vault_meta, initialized, locked, masterKeyHex,
                   viewingEntryPlain, integrityStatus, chainHist, created>>
    /\ IF Falsy(masterKeyHex)
       THEN /\ alert' = "Locked"
            /\ UNCHANGED <<vault_entries, vault_tamper_log, entries, produced>>
       ELSE IF IsBlank(text)
       THEN /\ alert' = "Empty"
            /\ UNCHANGED <<vault_entries, vault_tamper_log, entries, produced>>
       ELSE LET enc == encryptEntryWithMaster(masterKeyHex, text, ivHex, now)
                id == now \o "-" \o ivHex
                entry == [id |-> id, iv |-> enc.ivHex, ciphertext |-> enc.ciphertextB64,
                          hmac |-> enc.hmac, timestamp |-> enc.ts]
            IN  /\ vault_entries' = appendEntry(vault_entries, entry)
                /\ vault_tamper_log' =
                      appendEvent(vault_tamper_log,
                                  Partial("entry_added", "id=" \o id, Undefined),
                                  now, nonce)
                /\ entries' = loadEntries(vault_entries')
                /\ produced' = produced \cup
                      {[entry |-> entry, text |-> text, key |-> masterKeyHex]}
                /\ alert' = ""

\* handleViewEntry(entry), entry taken from the list on screen
ViewEntry(i, now, nonce) ==
    /\ UNCHANGED calls
    /\ MainScreen
    /\ i \in 1..Len(entries)
    /\ UNCHANGED <<secureVars, vault_entries, vault_meta, initialized, locked,
                   masterKeyHex, entries, integrityStatus, chainHist, created,
                   produced>>
    /\ LET entry == entries[i]
       IN  IF Falsy(masterKeyHex)
           THEN /\ alert' = "Locked"
                /\ lastOp' = [op |-> "viewEntry", entry |-> entry, decrypted |-> FALSE,
                              logBefore |-> Len(Log), alertAt |-> Len(Log)]
                /\ UNCHANGED <<vault_tamper_log, viewingEntryPlain>>
           ELSE IF ~verifyEntryHMAC(masterKeyHex, entry)
           THEN /\ alert' = "Integrity failed"
                /\ vault_tamper_log' =
                      appendEvent(vault_tamper_log,
                                  Partial("entry_integrity_fail", Undefined, entry.id),
                                  now, nonce)
                /\ lastOp' = [op |-> "viewEntry", entry |-> entry, decrypted |-> FALSE,
                              logBefore |-> Len(Log), alertAt |-> Len(Log)]
                /\ UNCHANGED viewingEntryPlain
           ELSE \E plain \in decryptEntryWithMaster(masterKeyHex, entry) :
                /\ lastOp' = [op |-> "viewEntry", entry |-> entry, decrypted |-> TRUE,
                              logBefore |-> Len(Log),
                              alertAt |-> IF plain = Throws THEN Len(Log) ELSE NoAlert]
                /\ IF plain = Throws
                   THEN /\ alert' = "Error"
                        /\ vault_tamper_log' =
                              appendEvent(vault_tamper_log,
                                  Partial("entry_decrypt_fail", Undefined, entry.id),
                                  now, nonce)
                        /\ UNCHANGED viewingEntryPlain
                   ELSE /\ viewingEntryPlain' = Some([id |-> entry.id, text |-> plain])
                        /\ vault_tamper_log' =
                              appendEvent(vault_tamper_log,
                                  Partial("entry_viewed", Undefined, entry.id),
                                  now, nonce)
                        /\ alert' = ""

\* "Close (clear from memory)" in the view modal
CloseView ==
    /\ UNCHANGED calls
    /\ initialized /\ ~locked /\ viewingEntryPlain # NONE
    /\ viewingEntryPlain' = NONE
    /\ lastOp' = [op |-> "closeView"]
    /\ UNCHANGED <<secureVars, asyncVars, initialized, locked, masterKeyHex,
                   entries, integrityStatus, alert, chainHist, created, produced>>

\* handleHashVerify
HashVerify(now, nonce) ==
    /\ UNCHANGED calls
    /\ MainScreen
    /\ LET migrated == ensureMigrated(ensureMigrated(vault_tamper_log, now, nonce),
                                      now, nonce)
           res == verifyChain(migrated)
       IN  /\ integrityStatus' = IF res.ok THEN "Verified" ELSE "Fail"
           /\ vault_tamper_log' =
                 appendEvent(migrated,
                     Partial("integrity_check", ToString(res.breaks) \o " breaks", Undefined),
                     now, nonce)
    /\ entries' = loadEntries(vault_entries)
    /\ alert' = ""
    /\ lastOp' = [op |-> "hashVerify"]
    /\ UNCHANGED <<secureVars, vault_entries, vault_meta, initialized, locked,
                   masterKeyHex, viewingEntryPlain, chainHist, created, produced>>

\* handleVerifyNow
VerifyNow(now, nonce) ==
    /\ UNCHANGED calls
    /\ MainScreen
    /\ ~Falsy(masterKeyHex)
    /\ LET vi == verifyIntegrity(masterKeyHex, vault_tamper_log, now, nonce)
       IN  /\ integrityStatus' = vi.status
           /\ vault_tamper_log' =
                 appendEvent(vi.log,
                     Partial("manual_integrity_check", "user_initiated", Undefined),
                     now, nonce)
    /\ entries' = loadEntries(vault_entries)
    /\ alert' = ""
    /\ lastOp' = [op |-> "verifyNow"]
    /\ UNCHANGED <<secureVars, vault_entries, vault_meta, initialized, locked,
                   masterKeyHex, viewingEntryPlain, chainHist, created, produced>>

\* performPanicWipe: three overwrite passes, clearAllEntries, the residue
\* check, the state reset and the two appends
performPanicWipe(now, nonce) ==
    /\ UNCHANGED calls
    /\ MainScreen
    /\ vault_entries' = NONE
    /\ LET checkWrapped == vault_wrapped_key
           checkEntries == loadEntries(vault_entries')
           afterCheck ==
               IF checkWrapped # NONE \/ Len(checkEntries) > 0
               THEN appendEvent(vault_tamper_log,
                        Partial("panic_wipe_failed", "Data still exists after wipe",
                                Undefined),
                        now, nonce)
               ELSE vault_tamper_log
       IN  /\ vault_tamper_log' =
                 appendEvent(afterCheck, Partial("panic_wiped", Undefined, Undefined),
                             now, nonce)
           /\ lastOp' = [op |-> "panicWipe", alertAt |-> Len(loadTamperLog(afterCheck))]
    /\ entries' = <<>>
    /\ masterKeyHex' = Null
    /\ locked' = TRUE
    /\ initialized' = FALSE
    /\ alert' = "Panic wipe complete"
    /\ created' = [created EXCEPT !.wiped = TRUE]
    /\ UNCHANGED <<secureVars, vault_meta, viewingEntryPlain, integrityStatus,
                   chainHist, produced>>

\* the app is closed and started again: useState defaults, start-up effect
Restart ==
    /\ UNCHANGED calls
    /\ initialized' = (vault_wrapped_key # NONE /\ vault_salt # NONE /\ vault_iter # NONE)
    /\ locked' = TRUE
    /\ masterKeyHex' = Null
    /\ entries' = IF initialized' THEN loadEntries(vault_entries) ELSE <<>>
    /\ viewingEntryPlain' = NONE
    /\ integrityStatus' = "Unknown"
    /\ alert' = ""
    /\ lastOp' = [op |-> "restart"]
    /\ UNCHANGED <<secureVars, asyncVars, chainHist, created, produced>>

\* an outside writer replaces the ciphertext or the hmac of one entry of a
\* store that holds the entries as the application wrote them
TamperEntry(i, field) ==
    LET stored == loadEntries(vault_entries)
    IN  /\ UNCHANGED calls
        /\ i \in 1..Len(stored)
        /\ \A j \in 1..Len(stored) : stored[j] \in {r.entry : r \in produced}
        /\ IF field = "ciphertext"
           THEN /\ stored[i].ciphertext # "00"
                /\ vault_entries' = Some([stored EXCEPT ![i].ciphertext = "00"])
           ELSE /\ stored[i].hmac # "00"
                /\ vault_entries' = Some([stored EXCEPT ![i].hmac = "00"])
        /\ lastOp' = [op |-> "tamperEntry"]
        /\ UNCHANGED <<secureVars, vault_tamper_log, vault_meta, appVars,
                       chainHist, created, produced>>

\* the handlers, each with room left in the log for the blocks it appends
Handlers(cap, texts) ==
    \/ \E passA \in Passphrases, passB \in Passphrases, masterHex \in MasterKeys,
          saltHex \in Salts, wrapIvHex \in WrapIvs, now \in AppTimes, nonce \in Nonces :
          CreateVault(passA, passB, masterHex, saltHex, wrapIvHex, now, nonce)
    \/ \E pass \in Attempts, bio \in {"ok", "failed"}, now \in AppTimes,
          nonce \in Nonces : Len(Log) + 3 <= cap /\ Unlock(pass, bio, now, nonce)
    \/ \E now \in AppTimes, nonce \in Nonces : Len(Log) + 1 <= cap /\ Lock(now, nonce)
    \/ \E text \in texts \cup {""}, ivHex \in EntryIvs, now \in AppTimes,
          nonce \in Nonces :
          Len(Log) + 1 <= cap /\ SaveNewEntry(text, ivHex, now, nonce)
    \/ \E i \in 1..MaxEntries + 1, now \in AppTimes, nonce \in Nonces :
          Len(Log) + 1 <= cap /\ ViewEntry(i, now, nonce)
    \/ CloseView

Next ==
    \/ Handlers(MaxAppLog, {"hello vault"})
    \/ \E res \in {"unavailable", "cancelled", "success"}, now \in AppTimes,
          nonce \in Nonces :
          Len(Log) + 1 <= MaxAppLog /\ BiometricUnlock(res, now, nonce)
    \/ \E now \in AppTimes, nonce \in Nonces :
          Len(Log) + 1 <= MaxAppLog /\ HashVerify(now, nonce)
    \/ \E now \in AppTimes, nonce \in Nonces :
          Len(Log) + 3 <= MaxAppLog /\ VerifyNow(now, nonce)
    \/ \E now \in AppTimes, nonce \in Nonces :
          Len(Log) + 2 <= MaxAppLog /\ performPanicWipe(now, nonce)
    \/ Restart
    \/ \E i \in 1..MaxEntries + 1, field \in {"ciphertext", "hmac"} :
          TamperEntry(i, field)

Spec == Init /\ [][Next]_vars

\* the passphrase sessions of a vault, over a longer log: set-up, unlock,
\* save, view, lock, restart, with the outside writer
NextSession ==
    \/ Handlers(MaxSessionLog, Texts)
    \/ Restart
    \/ \E i \in 1..MaxEntries + 1, field \in {"ciphertext", "hmac"} :
          TamperEntry(i, field)

SpecSession == Init /\ [][NextSession]_vars

(***************************************************************************)
(* The handlers that never set `loading`: handleLock and handleViewEntry   *)
(* change the screen state and then await appendEvent, which stays in      *)
(* flight while the screen takes the next press                            *)
(***************************************************************************)
Called(c, ev, now, nonce) ==
    [calls EXCEPT ![c] =
        [pc |-> "built",
         block |-> <<NewBlock(loadTamperLog(ensureMigrated(vault_tamper_log, now, nonce)),
                              ev, now, nonce)>>,
         log |-> <<>>,
         raced |-> InFlight # {}]]

\* handleLock up to the point where its appendEvent has loaded the log
PressLock(c, now, nonce) ==
    /\ MainScreen
    /\ calls[c].pc = "idle"
    /\ masterKeyHex' = Null
    /\ locked' = TRUE
    /\ viewingEntryPlain' = NONE
    /\ alert' = ""
    /\ calls' = Called(c, Partial("locked", "user_lock", Undefined), now, nonce)
    /\ lastOp' = [op |-> "lock"]
    /\ UNCHANGED <<secureVars, asyncVars, initialized, entries, integrityStatus,
                   chainHist, created, produced>>

\* handleViewEntry of an entry that verifies and decrypts, up to the point
\* where its appendEvent has loaded the log
PressView(c, i, now, nonce) ==
    /\ MainScreen
    /\ calls[c].pc = "idle"
    /\ i \in 1..Len(entries)
    /\ ~Falsy(masterKeyHex)
    /\ verifyEntryHMAC(masterKeyHex, entries[i])
    /\ \E plain \in decryptEntryWithMaster(masterKeyHex, entries[i]) :
          /\ plain # Throws
          /\ viewingEntryPlain' = Some([id |-> entries[i].id, text |-> plain])
    /\ alert' = ""
    /\ calls' = Called(c, Partial("entry_viewed", Undefined, entries[i].id), now, nonce)
    /\ lastOp' = [op |-> "viewEntry", entry |-> entries[i], decrypted |-> TRUE,
                  logBefore |-> Len(Log), alertAt |-> NoAlert]
    /\ UNCHANGED <<secureVars, asyncVars, initialized, locked, masterKeyHex, entries,
                   integrityStatus, chainHist, created, produced>>

\* one appendEvent call has returned
CallReturn(c) ==
    /\ calls[c].pc = "done"
    /\ calls' = [calls EXCEPT ![c] = Idle]
    /\ UNCHANGED <<secureVars, asyncVars, appVars, histVars>>

Room(k) == Len(Log) + Cardinality(InFlight) + k <= MaxAppLog

NextPress ==
    \/ \E passA \in Passphrases, passB \in Passphrases, masterHex \in MasterKeys,
          saltHex \in Salts, wrapIvHex \in WrapIvs, now \in AppTimes, nonce \in Nonces :
          CreateVault(passA, passB, masterHex, saltHex, wrapIvHex, now, nonce)
    \/ \E pass \in Attempts, bio \in {"ok", "failed"}, now \in AppTimes,
          nonce \in Nonces : Room(3) /\ Unlock(pass, bio, now, nonce)
    \/ \E text \in {"hello vault", ""}, ivHex \in EntryIvs, now \in AppTimes,
          nonce \in Nonces : Room(1) /\ SaveNewEntry(text, ivHex, now, nonce)
    \/ \E c \in CallIds, now \in AppTimes, nonce \in Nonces :
          Room(1) /\ PressLock(c, now, nonce)
    \/ \E c \in CallIds, i \in 1..MaxEntries, now \in AppTimes, nonce \in Nonces :
          Room(1) /\ PressView(c, i, now, nonce)
    \/ CloseView
    \/ \E c \in CallIds : CallRead(c)
    \/ \E c \in CallIds : CallWrite(c)
    \/ \E c \in CallIds : CallReturn(c)

SpecPress == Init /\ [][NextPress]_vars

(***************************************************************************)
(* The storage layer when one AsyncStorage / SecureStore call of an        *)
(* operation fails (rejects, or returns text JSON.parse cannot read)       *)
(***************************************************************************)
\* the call of appendEvent that fails, if any
AppendFaults ==
    {"none", "migrateRead", "migrateWrite", "existingRead", "appendRead", "write"}

\* storage.appendTamperLog: a failed read yields [], a failed write is
\* caught and logged
appendTamperLogFaulty(store, eventObj, readFails, writeFails) ==
    IF writeFails THEN store
    ELSE Some(<<eventObj>> \o (IF readFails THEN <<>> ELSE loadTamperLog(store)))

\* ensureMigrated: a failed read yields [] and the function returns, a
\* failed write is caught by its try
ensureMigratedFaulty(store, now, nonce, readFails, writeFails) ==
    IF readFails \/ writeFails THEN store ELSE ensureMigrated(store, now, nonce)

\* appendEvent: the content of vault_tamper_log afterwards, the block
\* returned, and whether the call threw
appendEventFaulty(store, ev, now, nonce, fault) ==
    LET migrated == ensureMigratedFaulty(store, now, nonce,
                                         fault = "migrateRead", fault = "migrateWrite")
        existing == IF fault = "existingRead" THEN <<>> ELSE loadTamperLog(migrated)
        block == NewBlock(existing, ev, now, nonce)
    IN  [store |-> appendTamperLogFaulty(migrated, block,
                                         fault = "appendRead", fault = "write"),
         block |-> block, threw |-> FALSE]

\* storage.appendEntry: loadEntries yields [] on a failed read, saveEntries
\* returns false on a failed write
appendEntryFaulty(store, entry, fault) ==
    IF fault = "write" THEN store
    ELSE saveEntries(<<entry>> \o (IF fault = "read" THEN <<>> ELSE loadEntries(store)))

\* entries as handleSaveNewEntry builds them
FaultEntries ==
    { [id |-> "T1-" \o ivHex,
       iv |-> encryptEntryWithMaster("K1", text, ivHex, "T1").ivHex,
       ciphertext |-> encryptEntryWithMaster("K1", text, ivHex, "T1").ciphertextB64,
       hmac |-> encryptEntryWithMaster("K1", text, ivHex, "T1").hmac,
       timestamp |-> encryptEntryWithMaster("K1", text, ivHex, "T1").ts] :
      text \in {"hello vault"}, ivHex \in EntryIvs }

\* no storage call has failed so far: the runs considered hold at most one
\* failing call, in their last operation
NoFaultYet == IF lastOp.op = "start" THEN TRUE ELSE lastOp.fault = "none"

FaultAppendEvent(ev, now, nonce, fault) ==
    LET r == appendEventFaulty(vault_tamper_log, ev, now, nonce, fault)
    IN  /\ initialized /\ NoFaultYet
        /\ LogLen < MaxLog
        /\ vault_tamper_log' = r.store
        /\ lastOp' = [op |-> "appendEvent", fault |-> fault, threw |-> r.threw,
                       block |-> r.block]
        /\ UNCHANGED <<secureVars, vault_entries, vault_meta, appVars, chainHist,
                       created, produced, calls>>

FaultAppendTamperLog(item, fault) ==
    /\ initialized /\ NoFaultYet
    /\ LogLen < MaxLog
    /\ vault_tamper_log' =
          appendTamperLogFaulty(vault_tamper_log, item, fault = "appendRead",
                                fault = "write")
    /\ lastOp' = [op |-> "appendTamperLog", fault |-> fault, threw |-> FALSE]
    /\ UNCHANGED <<secureVars, vault_entries, vault_meta, appVars, chainHist,
                   created, produced, calls>>

FaultAppendEntry(entry, fault) ==
    /\ initialized /\ NoFaultYet
    /\ Len(loadEntries(vault_entries)) < MaxEntries
    /\ \A i \in 1..Len(loadEntries(vault_entries)) :
          loadEntries(vault_entries)[i].id # entry.id
    /\ vault_entries' = appendEntryFaulty(vault_entries, entry, fault)
    /\ lastOp' = [op |-> "appendEntry", fault |-> fault, threw |-> FALSE]
    /\ UNCHANGED <<secureVars, vault_tamper_log, vault_meta, appVars, chainHist,
                   created, produced, calls>>

\* handleCreateVault when its failAt-th storage write fails (0: none):
\* 1..4 SecureStore wrapped, salt, iter, created; 5 saveEntries([]);
\* 6 the tamper log reset; 7 meta; 8 the write inside appendEvent
FaultCreateVault(failAt, masterHex, saltHex, wrapIvHex, now, nonce) ==
    LET pass == "correct-horse-battery1"
        reached(k) == failAt = 0 \/ failAt >= k
        wrote(k) == failAt = 0 \/ failAt > k
        threw == failAt \in {1, 2, 3, 4, 6, 7}
    IN  /\ SetupScreen /\ NoFaultYet
        /\ vault_wrapped_key' =
              IF wrote(1)
              THEN Some([wrapped |-> wrapMasterKey(masterHex,
                                        deriveKeyPBKDF2(pass, saltHex, PBKDF2_ITERATIONS),
                                        wrapIvHex),
                         wrapIvHex |-> wrapIvHex])
              ELSE vault_wrapped_key
        /\ vault_salt' = IF wrote(2) THEN Some(saltHex) ELSE vault_salt
        /\ vault_iter' = IF wrote(3) THEN Some(ToString(PBKDF2_ITERATIONS)) ELSE vault_iter
        /\ vault_created' = IF wrote(4) THEN Some(now) ELSE vault_created
        /\ vault_entries' = IF wrote(5) THEN saveEntries(<<>>) ELSE vault_entries
        /\ vault_tamper_log' =
              IF ~wrote(6) THEN vault_tamper_log
              ELSE IF ~reached(8) THEN Some(<<>>)
              ELSE appendEventFaulty(Some(<<>>),
                       Partial("vault_created", "initialization", Undefined),
                       now, nonce, IF failAt = 8 THEN "write" ELSE "none").store
        /\ vault_meta' = IF wrote(7) THEN Some([biometricEnabled |-> FALSE]) ELSE vault_meta
        /\ initialized' = ~threw
        /\ locked' = TRUE
        /\ entries' = loadEntries(vault_entries')
        /\ alert' = IF threw THEN "Error" ELSE ""
        /\ lastOp' = [op |-> "createVault", fault |-> IF failAt = 0 THEN "none" ELSE "write",
                       failAt |-> failAt, threw |-> threw]
        /\ UNCHANGED <<masterKeyHex, viewingEntryPlain, integrityStatus, chainHist,
                       created, produced, calls>>

NextFault ==
    \/ \E failAt \in 0..8, masterHex \in MasterKeys, saltHex \in Salts,
          wrapIvHex \in WrapIvs, now \in AppTimes, nonce \in Nonces :
          FaultCreateVault(failAt, masterHex, saltHex, wrapIvHex, now, nonce)
    \/ \E ev \in ChainEvents, now \in AppTimes, nonce \in Nonces, fault \in AppendFaults :
          FaultAppendEvent(ev, now, nonce, fault)
    \/ \E item \in LegacyItems, fault \in {"none", "appendRead", "write"} :
          FaultAppendTamperLog(item, fault)
    \/ \E entry \in FaultEntries, fault \in {"none", "read", "write"} :
          FaultAppendEntry(entry, fault)

SpecFault == Init /\ [][NextFault]_vars

(***************************************************************************)
(* Properties of the audit chain                                           *)
(***************************************************************************)
Chain == loadChain(vault_tamper_log)

\* C1: starting from an empty log, after N sequential appendEvent calls the
\* chronological chain has seq exactly 1..N, block 1 has prevHash null and
\* every later block's prevHash is the blockHash of the block before it.
C1_ChainMonotonic ==
    nLegacy = 0 =>
        /\ Len(Chain) = nAppendEvent
        /\ \A i \in 1..Len(Chain) : Chain[i].seq = i
        /\ Len(Chain) > 0 => Chain[1].prevHash = Null
        /\ \A i \in 2..Len(Chain) : Chain[i].prevHash = Chain[i - 1].blockHash

C1_Witness == nLegacy = 0 /\ nAppendEvent >= 3 /\ Len(Chain) >= 3

\* C2: verifyChain on a chain built by N >= 0 appendEvent calls reports
\* ok and no break; head null and no details for N = 0, one details record
\* per block otherwise.
C2_FreshChainVerifies ==
    (verification # NoResult /\ nLegacy = 0 /\ tampered.seq = 0) =>
        /\ verification.ok /\ verification.breaks = 0
        /\ Len(verification.details) = nAppendEvent
        /\ nAppendEvent = 0 =>
              verification.head = Null /\ verification.details = <<>>
        /\ \A i \in 1..Len(verification.details) :
              verification.details[i].seq = Chain[i].seq

C2_Witness ==
    /\ verification # NoResult /\ nLegacy = 0 /\ tampered.seq = 0
    /\ nAppendEvent >= 2 /\ Len(verification.details) >= 2

\* C3: after a verifyChain that reported ok, changing the detail field of one
\* stored block makes the next verifyChain report at least one break, and
\* the details records with blockMatches false are those of that block's seq.
C3_TamperDetected ==
    (verification # NoResult /\ tampered.seq # 0 /\ tampered.afterOk
        /\ tampered.fresh) =>
        /\ verification.breaks >= 1 /\ ~verification.ok
        /\ \A i \in 1..Len(verification.details) :
              ~verification.details[i].blockMatches
                  <=> verification.details[i].seq = tampered.seq

C3_Witness ==
    /\ verification # NoResult /\ tampered.seq # 0 /\ tampered.afterOk
    /\ tampered.fresh /\ Len(verification.details) >= 2

\* C10: running ensureMigrated twice in succession leaves the storage after
\* the second run identical to the storage after the first run.
C10_MigrationIdempotent ==
    \A now1 \in Times, now2 \in Times, n1 \in Nonces, n2 \in Nonces :
        LET first == ensureMigrated(vault_tamper_log, now1, n1)
        IN  /\ ensureMigrated(first, now2, n2) = first
            /\ ~needMigration(loadTamperLog(first))

C10_Witness ==
    LET log == loadTamperLog(vault_tamper_log)
    IN  /\ Len(log) >= 3
        /\ needMigration(log)
        /\ \E i \in 1..Len(log) : log[i].raw # <<>>
        /\ \E i \in 1..Len(log) : log[i].ts = Undefined


(***************************************************************************)
(* Properties of the application                                           *)
(***************************************************************************)
\* the handler that ran last appended exactly one block, the newest of the
\* log, hashed and linked to the block before it
AppendedBlock(event) ==
    /\ Len(Log) = lastOp.logBefore + 1
    /\ Log[1].event = event
    /\ Log[1].seq = Len(Log)
    /\ Log[1].blockHash = computeBlockHash(Log[1])
    /\ Len(Log) > 1 => Log[1].prevHash = Log[2].blockHash

\* the entry differs in ciphertext or hmac from the one encryptEntryWithMaster
\* produced under the same id
Altered(entry) ==
    \E r \in produced :
        /\ r.entry.id = entry.id
        /\ r.entry.ciphertext # entry.ciphertext \/ r.entry.hmac # entry.hmac

\* the stored wrapped key unwraps to masterHex under the key derived from pass
UnwrapsTo(pass, masterHex) ==
    /\ vault_wrapped_key # NONE /\ vault_salt # NONE /\ vault_iter # NONE
    /\ masterHex \in unwrapMasterKey(vault_wrapped_key[1].wrapped,
                        deriveKeyPBKDF2(pass, vault_salt[1], ParseInt(vault_iter[1])),
                        vault_wrapped_key[1].wrapIvHex)
    /\ UnwrapAccepted(masterHex)

\* C4: after performPanicWipe the key-material records are absent and
\* vault_entries is empty, and a later unlock attempt ends in "Vault not
\* initialized".  The code leaves the SecureStore records in place: TLC
\* finds this violated.
C4_PanicWipeRemovesKeyMaterial ==
    /\ lastOp.op = "panicWipe" =>
          /\ vault_wrapped_key = NONE /\ vault_salt = NONE
          /\ vault_iter = NONE /\ vault_created = NONE
          /\ loadEntries(vault_entries) = <<>>
    /\ (lastOp.op = "unlock" /\ lastOp.wiped) => alert = "Vault not initialized"

\* C5: the vault is unlocked, or holds a master key, only if that key is the
\* stored wrapped key unwrapped under a key derived from a passphrase, and a
\* press of "Use Biometric" leaves the vault locked without a key.  The
\* button calls handleDevUnlock: TLC finds this violated.
C5_UnlockedOnlyByPassphrase ==
    /\ (~locked \/ masterKeyHex # Null) =>
          \E pass \in Attempts : UnwrapsTo(pass, masterKeyHex)
    /\ lastOp.op = "biometric" => locked /\ masterKeyHex = Null

\* C6: an unlock of a vault created with P1, attempted with a passphrase P2
\* of valid length other than P1, ends in "Unlock failed": the vault stays
\* locked, no master key is held, and one unlock_failed block with detail
\* wrong_passphrase is appended.  The handler accepts whatever 32 bytes the
\* unwrap returns, and a wrong key can return 32 bytes: TLC finds this
\* violated.
C6_WrongPassphraseRejected ==
    (/\ lastOp.op = "unlock"
     /\ created.pass # Null
     /\ lastOp.pass # created.pass
     /\ Len(lastOp.pass) >= MinPassphraseLength)
    => /\ alert = "Unlock failed"
       /\ locked
       /\ masterKeyHex = Null
       /\ AppendedBlock("unlock_failed")
       /\ Log[1].detail = "wrong_passphrase"

\* C7: an unlock with the passphrase the vault was created with installs the
\* master key generated at creation; every entry encryptEntryWithMaster
\* produced verifies under its key and decrypts to exactly its plaintext;
\* and viewing an unaltered entry written under the vault's key, while that
\* key is held, shows its plaintext -- in any later session as well.
C7_RoundTrip ==
    /\ (lastOp.op = "unlock" /\ lastOp.pass = created.pass) =>
          /\ ~locked
          /\ masterKeyHex = created.key
          /\ alert = ""
    /\ \A r \in produced :
          /\ verifyEntryHMAC(r.key, r.entry)
          /\ decryptEntryWithMaster(r.key, r.entry) = {r.text}
    /\ \A r \in produced :
          (/\ lastOp.op = "viewEntry"
           /\ lastOp.entry = r.entry
           /\ r.key = created.key
           /\ masterKeyHex = created.key)
          => /\ viewingEntryPlain = Some([id |-> r.entry.id, text |-> r.text])
             /\ alert = ""

\* an entry saved in one session is read after a lock and a second unlock
C7_Witness ==
    /\ lastOp.op = "viewEntry"
    /\ masterKeyHex = created.key
    /\ \E r \in produced :
          /\ lastOp.entry = r.entry
          /\ viewingEntryPlain = Some([id |-> r.entry.id, text |-> r.text])
    /\ \E a, b, c \in 1..Len(Log) :
          /\ a < b /\ b < c
          /\ Log[a].event = "unlocked"
          /\ Log[b].event = "locked"
          /\ Log[c].event = "entry_added"

\* C8: viewing a stored entry whose ciphertext or hmac was altered ends in
\* "Integrity failed": decryption is not attempted, the view state holds no
\* plaintext, and one entry_integrity_fail block naming the entry is
\* appended.
C8_AlteredEntryRejected ==
    (lastOp.op = "viewEntry" /\ Altered(lastOp.entry))
    => /\ alert = "Integrity failed"
       /\ ~lastOp.decrypted
       /\ viewingEntryPlain = NONE
       /\ AppendedBlock("entry_integrity_fail")
       /\ Log[1].id = lastOp.entry.id

C8_Witness ==
    /\ lastOp.op = "viewEntry"
    /\ Altered(lastOp.entry)
    /\ masterKeyHex = created.key
    /\ alert = "Integrity failed"
    /\ Log[1].event = "entry_integrity_fail"

WithNonce(which, nonce, custody) ==
    Some([j \in 1..Len(Log) |->
            IF j \in which
            THEN [Log[j] EXCEPT !.nonce = nonce, !.custody = custody]
            ELSE Log[j]])

\* the blockHash and prevHash of every item of a stored log
HashesOf(store) ==
    [j \in 1..Len(loadTamperLog(store)) |->
        <<loadTamperLog(store)[j].blockHash, loadTamperLog(store)[j].prevHash>>]

\* C11: the blockHash of a block is the same whatever its nonce and custody
\* are; migrating the stored log and migrating it with every nonce and
\* custody removed (and another nonce drawn) give the same hashes; and after
\* a verifyChain, the log with the nonce and custody of any one block
\* replaced verifies to the result just returned.
C11_NonceNotHashed ==
    /\ \A i \in 1..Len(Log) :
          {computeBlockHash([Log[i] EXCEPT !.nonce = v[1], !.custody = v[2]]) :
              v \in NonceCustodyValues} = {computeBlockHash(Log[i])}
    /\ HashesOf(ensureMigrated(vault_tamper_log, "T2", "n1"))
          = HashesOf(ensureMigrated(WithNonce(1..Len(Log), Undefined, Undefined),
                                    "T2", "n2"))
    /\ lastOp.op = "verifyChain" =>
          \A i \in 1..Len(Log) :
              verifyChainResult(WithNonce({i}, "n2", "officer-7"), "T2", "n2")
                 = verification

\* a log of chained blocks and one unchained item, just verified
C11_Witness ==
    /\ Len(Log) >= 3
    /\ lastOp.op = "verifyChain"
    /\ nLegacy >= 1 /\ nAppendEvent >= 1
    /\ \E i \in 1..Len(Log) : Log[i].nonce = "n1"


(***************************************************************************)
(* Properties of the application, continued                                *)
(***************************************************************************)
Stored == loadEntries(vault_entries)

Remains(old, log) ==
    \E j \in 1..Len(log) :
        /\ log[j].seq = old.seq
        /\ log[j].blockHash = old.blockHash
        /\ canonicalStringForBlock(log[j]) = canonicalStringForBlock(old)

\* C13: across every handler other than the panic wipe the number of stored
\* audit blocks does not decrease and every stored block remains in the log.
\* handleCreateVault resets the log to [] and performPanicWipe leaves it in
\* place, so a vault created after a wipe drops the earlier blocks: TLC
\* finds this violated.
C13_ChainNeverTruncated ==
    [][lastOp'.op # "panicWipe"
       => /\ Len(Log') >= Len(Log)
          /\ \A i \in 1..Len(Log) : Remains(Log[i], Log')]_vars


\* the events of the chain, oldest first
EventsOf(chain) == [j \in 1..Len(chain) |-> chain[j].event]

IsHandlerBlock(b) == b.event # "integrity_check"

\* the scenario: create the vault, unlock it (a new vault starts locked),
\* add an entry, lock, unlock, view the entry
ScenarioHandlerEvents ==
    <<"vault_created", "unlocked", "entry_added", "locked", "unlocked",
      "entry_viewed">>

\* the blocks the scenario leaves: every successful unlock runs
\* verifyIntegrity, which leaves two integrity_check items
ScenarioEvents ==
    <<"vault_created", "integrity_check", "integrity_check", "unlocked",
      "entry_added", "locked", "integrity_check", "integrity_check",
      "unlocked", "entry_viewed">>

\* the scenario has just ended: the vault was created with a 22-character
\* passphrase, the handlers that logged were exactly those of the scenario,
\* and the entry viewed last is the one saved with the text "hello vault"
ScenarioDone ==
    /\ created.pass # Null /\ Len(created.pass) = 22
    /\ lastOp.op = "viewEntry" /\ lastOp.decrypted
    /\ EventsOf(SelectSeq(Chain, IsHandlerBlock)) = ScenarioHandlerEvents
    /\ \E r \in produced : r.entry = lastOp.entry /\ r.text = "hello vault"

CorrectlyChained(chain) ==
    \A j \in 1..Len(chain) :
        /\ chain[j].seq = j
        /\ chain[j].blockHash = computeBlockHash(chain[j])
        /\ chain[j].prevHash = IF j = 1 THEN Null ELSE chain[j - 1].blockHash

\* C14 (as stated): at the end of the scenario the decrypted text is
\* "hello vault" and verifyChain returns ok, 0 breaks, over exactly 2 audit
\* blocks.  The handlers log every step, so the chain holds 10 blocks: TLC
\* finds this violated.
C14_ScenarioTwoBlocks ==
    ScenarioDone =>
        /\ viewingEntryPlain = Some([id |-> lastOp.entry.id, text |-> "hello vault"])
        /\ verifyChainResult(vault_tamper_log, "T1", "n1").ok
        /\ verifyChainResult(vault_tamper_log, "T1", "n1").breaks = 0
        /\ Len(Chain) = 2

\* C14 (amended): at the end of the scenario the decrypted text is
\* "hello vault" and verifyChain returns ok, 0 breaks, over one block per
\* logged item of the scenario -- vault_created, entry_added, locked,
\* entry_viewed, and for each unlock two integrity_check blocks and
\* unlocked -- all correctly chained.
C14_ScenarioChain ==
    ScenarioDone =>
        /\ viewingEntryPlain = Some([id |-> lastOp.entry.id, text |-> "hello vault"])
        /\ verifyChainResult(vault_tamper_log, "T1", "n1").ok
        /\ verifyChainResult(vault_tamper_log, "T1", "n1").breaks = 0
        /\ Len(verifyChainResult(vault_tamper_log, "T1", "n1").details) = Len(Chain)
        /\ EventsOf(Chain) = ScenarioEvents
        /\ CorrectlyChained(Chain)

C14_Witness ==
    /\ ScenarioDone
    /\ viewingEntryPlain # NONE
    /\ Len(Chain) = Len(ScenarioEvents)


\* C15: after a verifyChain that reported ok, changing the content of one
\* stored block (its blockHash and all other blocks left as they are) makes
\* the next verifyChain report exactly one break: the altered block fails
\* blockMatches only, and every other block, the later ones included, has
\* prevMatches and blockMatches true.
C15_BreaksDoNotCascade ==
    (lastOp.op = "verifyChain" /\ tampered.seq # 0 /\ tampered.afterOk
        /\ tampered.fresh) =>
        /\ verification.breaks = 1
        /\ \A i \in 1..Len(verification.details) :
              /\ verification.details[i].prevMatches
              /\ verification.details[i].seq # tampered.seq
                    => verification.details[i].blockMatches
        /\ Cardinality({i \in 1..Len(verification.details) :
                           verification.details[i].seq = tampered.seq}) = 1

\* the altered block is followed by at least one later block
C15_Witness ==
    /\ lastOp.op = "verifyChain" /\ tampered.afterOk /\ tampered.fresh
    /\ tampered.seq \in 1..(Len(verification.details) - 1)
    /\ verification.breaks = 1


\* the stored items that are blocks: appended with a blockHash
IsBlock(item) == ~Falsy(item.blockHash)

\* C16: once verifyChain reports a break for the stored log, it still reports
\* one after every further appendEvent, directly written unchained record
\* and migration, and none of these rewrites the hashed fields or the
\* blockHash of a block already stored.  ensureMigrated rebuilds every
\* block, the altered one included, as soon as one unchained record is in
\* the log: TLC finds this violated.
C16_TamperEvidencePersists ==
    [][(lastOp'.op # "tamper"
        /\ verifyChainResult(vault_tamper_log, "T1", "n1").breaks >= 1)
       => /\ verifyChainResult(vault_tamper_log', "T1", "n1").breaks >= 1
          /\ \A i \in 1..Len(Log) : IsBlock(Log[i]) => Remains(Log[i], Log')]_vars


\* the items a step puts in front of the stored log, newest first
Added == SubSeq(Log', 1, Len(Log') - Len(Log))

\* C17: a panic wipe appends exactly one outcome: panic_wipe_failed when
\* the re-read after the wipe finds the wrapped key or entries, panic_wiped
\* otherwise, never both.  performPanicWipe appends panic_wiped after the
\* residue branch whatever that branch did: TLC finds this violated.
C17_WipeRecordsOneOutcome ==
    [][lastOp'.op = "panicWipe"
       => /\ Len(Added) = 1
          /\ Added[1].event =
                IF vault_wrapped_key' # NONE \/ Len(loadEntries(vault_entries')) > 0
                THEN "panic_wipe_failed"
                ELSE "panic_wiped"]_vars


\* the alerts that surface a security-relevant failure or the wipe outcome
FailureAlerts == {"Unlock failed", "Integrity failed", "Panic wipe complete"}

\* C18: when a handler surfaces a wrong passphrase, an entry integrity
\* failure or the wipe outcome, its audit appends were complete when the
\* alert went up.  handleViewEntry and performPanicWipe call Alert.alert
\* first and appendEvent after it: TLC finds this violated.
C18_AppendBeforeAlert ==
    (lastOp.op \in {"unlock", "viewEntry", "panicWipe"} /\ alert \in FailureAlerts)
        => lastOp.alertAt = Len(Log)


\* every stored item carries a blockHash and a prevHash
AllChained(log) ==
    \A i \in 1..Len(log) : IsBlock(log[i]) /\ log[i].prevHash # Undefined

\* C19 (as stated): for any stored log, legacy records included, the content
\* of vault_tamper_log is the same after exportChainFiles as before.  The
\* export's loadChain runs ensureMigrated, which writes the rebuilt log
\* back: TLC finds this violated.
C19_ExportLeavesLog ==
    [][lastOp'.op = "exportChainFiles" => vault_tamper_log' = vault_tamper_log]_vars

\* C19 (amended): exportChainFiles leaves a stored log whose items are all
\* chained as it was; a log holding an unchained record is migrated in place
\* by the export's loadChain, and vault_tamper_log afterwards holds what one
\* ensureMigrated run leaves: as many items, all of them chained.
C19_ExportMigratesOnly ==
    [][lastOp'.op = "exportChainFiles"
       => /\ (AllChained(Log) \/ lastOp'.threw) => vault_tamper_log' = vault_tamper_log
          /\ ~lastOp'.threw =>
                /\ Len(Log') = Len(Log)
                /\ AllChained(Log')
                /\ \E now \in Times, nonce \in Nonces :
                      vault_tamper_log' = ensureMigrated(vault_tamper_log, now, nonce)]_vars

\* an export has just rebuilt a log of appended blocks and unchained
\* records: every item carries the item it was rebuilt from
C19_Witness ==
    /\ lastOp.op = "exportChainFiles" /\ ~lastOp.threw
    /\ Len(Log) >= 2 /\ nAppendEvent >= 1 /\ nLegacy >= 1
    /\ \A i \in 1..Len(Log) : Log[i].raw # <<>>

\* C20: for any stored log getHeadFingerprint returns the blockHash of the
\* chronologically last block, null for the empty chain, and the same value
\* as verifyChain().head; an export writes that value as the manifest's
\* chainHead and the number of blocks as its count.
C20_HeadAgreement ==
    LET migrated == ensureMigrated(vault_tamper_log, "T1", "n1")
        chain == loadChain(migrated)
        head == getHeadFingerprint(migrated)
    IN  /\ head = IF Len(chain) = 0 THEN Null ELSE chain[Len(chain)].blockHash
        /\ head = verifyChain(migrated).head
        /\ (lastOp.op = "exportChainFiles" /\ ~lastOp.threw) =>
              /\ lastOp.manifest.chainHead = head
              /\ lastOp.manifest.count = Len(chain)

\* an export of a chain of several blocks, one of them altered
C20_Witness ==
    /\ lastOp.op = "exportChainFiles" /\ ~lastOp.threw
    /\ lastOp.manifest.count >= 3
    /\ lastOp.manifest.chainHead = Chain[Len(Chain)].blockHash
    /\ lastOp.manifest.breaks >= 1


(***************************************************************************)
(* Properties of concurrent appends                                        *)
(***************************************************************************)
\* both calls have returned, and the second loaded the log while the first
\* had loaded it and not yet persisted its block
RacedPair ==
    /\ \A c \in CallIds : calls[c].pc = "done"
    /\ \E c \in CallIds : calls[c].raced

\* the two newest stored items carry the same seq and the same prevHash
DuplicateOnTop ==
    /\ Len(Log) >= 2
    /\ Log[1].seq = Log[2].seq
    /\ Log[1].prevHash = Log[2].prevHash

\* C21: when two appendEvent calls both load the log before either persists
\* its block, they build blocks with the same seq and prevHash; the stored
\* log then holds both (and verifyChain reports a break) or only the one
\* written last (and the chain is one block short of the calls made).
C21_RaceCorruptsChain ==
    RacedPair =>
        /\ calls[1].block[1].seq = calls[2].block[1].seq
        /\ calls[1].block[1].prevHash = calls[2].block[1].prevHash
        /\ \/ /\ DuplicateOnTop
              /\ {Log[1], Log[2]} = {calls[1].block[1], calls[2].block[1]}
              /\ verifyChainResult(vault_tamper_log, "T1", "n1").breaks >= 1
           \/ /\ ~DuplicateOnTop
              /\ Log[1] \in {calls[1].block[1], calls[2].block[1]}
              /\ Len(Chain) < nAppendEvent

\* both blocks stored, on top of an earlier block
C21_Witness ==
    /\ RacedPair /\ DuplicateOnTop /\ Len(Log) = 3
    /\ ~verifyChainResult(vault_tamper_log, "T1", "n1").ok

\* one of the two blocks lost
C21_WitnessLost ==
    RacedPair /\ ~DuplicateOnTop /\ nAppendEvent = Len(Log) + 1


\* C22: in every reachable state of the app at most one handler's log
\* read-modify-write is in flight.  handleLock and handleViewEntry do not
\* set `loading`, so the screen takes a second press while the first
\* handler's appendEvent is still awaiting storage: TLC finds this violated.
C22_OneWriterInFlight == Cardinality(InFlight) <= 1


(***************************************************************************)
(* The audit chain with a block removed from storage                       *)
(***************************************************************************)
\* the sequence without its i-th element
RemoveAt(seq, i) == SubSeq(seq, 1, i - 1) \o SubSeq(seq, i + 1, Len(seq))

\* an outside writer removes one block of a chain that verifyChain has just
\* found intact; index 1 is the newest block
ChainDelete(i) ==
    LET log == loadTamperLog(vault_tamper_log)
    IN  /\ tampered.seq = 0
        /\ verification # NoResult /\ verification.ok
        /\ Len(log) >= 2
        /\ i \in 1..Len(log)
        /\ vault_tamper_log' = Some(RemoveAt(log, i))
        /\ tampered' = [seq |-> log[i].seq, afterOk |-> TRUE, fresh |-> TRUE]
        /\ verification' = NoResult
        /\ lastOp' = [op |-> "delete", at |-> i, of |-> Len(log)]
        /\ UNCHANGED <<secureVars, vault_entries, vault_meta, appVars,
                       nAppendEvent, nLegacy, created, produced, calls>>

NextDelete ==
    \/ \E ev \in ChainEvents, now \in Times, nonce \in Nonces :
          ChainAppendEvent(ev, now, nonce)
    \/ \E now \in Times, nonce \in Nonces : ChainVerify(now, nonce)
    \/ \E i \in 1..MaxLog : ChainDelete(i)

SpecDelete == Init /\ [][NextDelete]_vars

(***************************************************************************)
(* The audit chain with hashed fields of a block rewritten                 *)
(***************************************************************************)
\* events handed to appendEvent, one with the separator inside its values
RewriteEvents ==
    { Partial("unlocked", "success", Undefined),
      Partial("note", "x|y", "z") }

\* values an outside writer puts into the detail and id fields
RewriteDetails == {"", "success", "x", "x|y"}
RewriteIds == {Undefined, "", "z", "y|z"}

\* an outside writer replaces detail and id of one stored block
ChainRewrite(i, d, id) ==
    LET log == loadTamperLog(vault_tamper_log)
    IN  /\ tampered.seq = 0
        /\ i \in 1..Len(log)
        /\ <<log[i].detail, log[i].id>> # <<d, id>>
        /\ vault_tamper_log' = Some([log EXCEPT ![i].detail = d, ![i].id = id])
        /\ tampered' = [seq |-> log[i].seq,
                        afterOk |-> verification # NoResult /\ verification.ok,
                        fresh |-> TRUE]
        /\ verification' = NoResult
        /\ lastOp' = [op |-> "rewrite", at |-> i]
        /\ UNCHANGED <<secureVars, vault_entries, vault_meta, appVars,
                       nAppendEvent, nLegacy, created, produced, calls>>

NextRewrite ==
    \/ \E ev \in RewriteEvents, now \in Times, nonce \in Nonces :
          ChainAppendEvent(ev, now, nonce)
    \/ \E now \in Times, nonce \in Nonces : ChainVerify(now, nonce)
    \/ \E i \in 1..MaxLog, d \in RewriteDetails, id \in RewriteIds :
          ChainRewrite(i, d, id)

SpecRewrite == Init /\ [][NextRewrite]_vars

(***************************************************************************)
(* Unlocking a vault whose SecureStore records were altered                *)
(***************************************************************************)
\* values an altered vault_salt / vault_iter item can hold
AlteredSalt == "S2"
AlteredIter == "5"

\* a SecureStore record of the initialized vault is replaced from outside
\* the app
AlterRecord(kind) ==
    /\ initialized /\ vault_wrapped_key # NONE
    /\ lastOp.op # "alter"
    /\ vault_wrapped_key' =
          IF kind = "wrapped" THEN Some(Undecodable) ELSE vault_wrapped_key
    /\ vault_salt' = IF kind = "salt" THEN Some(AlteredSalt) ELSE vault_salt
    /\ vault_iter' = IF kind = "iter" THEN Some(AlteredIter) ELSE vault_iter
    /\ lastOp' = [op |-> "alter", kind |-> kind]
    /\ UNCHANGED <<vault_created, asyncVars, appVars, chainHist, created, produced,
                   calls>>

NextUnwrap ==
    \/ \E passA \in Passphrases, passB \in Passphrases, masterHex \in MasterKeys,
          saltHex \in Salts, wrapIvHex \in WrapIvs, now \in AppTimes, nonce \in Nonces :
          CreateVault(passA, passB, masterHex, saltHex, wrapIvHex, now, nonce)
    \/ \E pass \in Attempts, bio \in {"ok", "failed"}, now \in AppTimes,
          nonce \in Nonces :
          Len(Log) + 3 <= MaxAppLog /\ Unlock(pass, bio, now, nonce)
    \/ \E now \in AppTimes, nonce \in Nonces :
          Len(Log) + 1 <= MaxAppLog /\ Lock(now, nonce)
    \/ \E kind \in {"wrapped", "salt", "iter"} : AlterRecord(kind)

SpecUnwrap == Init /\ [][NextUnwrap]_vars

(***************************************************************************)
(* Properties under storage failures                                       *)
(***************************************************************************)
\* C23: when the write of appendEvent's block fails, appendEvent fails and
\* the stored log is unchanged; when a write of createVault fails, the
\* operation fails and no key-material record is left.  appendTamperLog
\* catches the write error, so appendEvent returns the block as saved, and
\* handleCreateVault keeps the SecureStore items written before the failing
\* one: TLC finds this violated.
C23_FailedWriteCommitsNothing ==
    [][/\ (lastOp'.op = "appendEvent" /\ lastOp'.fault = "write")
            => lastOp'.threw /\ vault_tamper_log' = vault_tamper_log
       /\ (lastOp'.op = "createVault" /\ lastOp'.fault = "write")
            => /\ lastOp'.threw
               /\ vault_wrapped_key' = NONE /\ vault_salt' = NONE
               /\ vault_iter' = NONE /\ vault_created' = NONE]_vars

ReadFaults == {"migrateRead", "existingRead", "appendRead", "read"}

\* C29: when a read of vault_entries or vault_tamper_log fails during
\* appendEntry, appendTamperLog or appendEvent, every entry and block stored
\* before is still stored afterwards, and a block appended to a non-empty
\* log does not get seq 1.  loadEntries and loadTamperLog answer a failed
\* read with [], which the caller extends and writes back: TLC finds this
\* violated.
C29_FailedReadKeepsData ==
    [][(lastOp'.op \in {"appendEntry", "appendTamperLog", "appendEvent"}
        /\ lastOp'.fault \in ReadFaults)
       => /\ \A i \in 1..Len(Stored) :
                \E j \in 1..Len(loadEntries(vault_entries')) :
                    loadEntries(vault_entries')[j] = Stored[i]
          /\ Len(Log') >= Len(Log)
          /\ \A i \in 1..Len(Log) : IsBlock(Log[i]) => Remains(Log[i], Log')
          /\ (lastOp'.op = "appendEvent" /\ Len(Log) > 0) => lastOp'.block.seq > 1]_vars


(***************************************************************************)
(* Properties of unlocking with altered records                            *)
(***************************************************************************)
\* C24: every unlock of an initialized vault that fails on the unwrap path
\* (all three records present, no biometric refusal) shows the alert
\* "Unlock failed" and appends unlock_failed with detail wrong_passphrase.
\* A vault_wrapped_key item that JSON.parse rejects takes the outer catch
\* of handleUnlock instead: alert "Error", detail the exception message.
\* TLC finds this violated.
C24_UniformUnlockFailure ==
    [][(lastOp'.op = "unlock" /\ locked'
        /\ alert' \notin {"Vault not initialized", "Biometric failed"})
       => /\ alert' = "Unlock failed"
          /\ Log'[1].event = "unlock_failed"
          /\ Log'[1].detail = "wrong_passphrase"]_vars


(***************************************************************************)
(* Properties of the migration                                             *)
(***************************************************************************)
\* the record as first written: a block rebuilt before carries it in _raw
Origin(item) == IF item.raw # <<>> THEN item.raw ELSE <<item>>

\* after is the rebuild of before: as many blocks, in the same order
\* (both newest-first), numbered 1..n oldest to newest, each linked to the
\* block before it, hashed over its canonical string, holding its origin
Migrated(before, after) ==
    LET n == Len(before)
    IN  /\ Len(after) = n
        /\ \A j \in 1..n :
              /\ after[j].seq = n + 1 - j
              /\ after[j].event = Or(Or(before[j].event, before[j].type), "event")
              /\ after[j].id = before[j].id
              /\ after[j].prevHash = IF j = n THEN Null ELSE after[j + 1].blockHash
              /\ after[j].blockHash = sha256Hex(canonicalStringForBlock(after[j]))
              /\ after[j].raw = Origin(before[j])

\* C25: when verifyChain's ensureMigrated finds a legacy record (no
\* blockHash, or prevHash undefined) in a log of n records, the log
\* afterwards holds n blocks in the same event order, newest first, with
\* seq 1..n, prevHash null for block 1 and the previous blockHash for the
\* others, blockHash the SHA-256 of the canonical string, and the original
\* record under _raw.
C25_MigrationPostcondition ==
    [][(lastOp'.op = "verifyChain" /\ needMigration(Log)) => Migrated(Log, Log')]_vars

C25_Witness ==
    /\ lastOp.op = "verifyChain"
    /\ Len(Log) >= 2
    /\ Log[1].raw # <<>>
    /\ nAppendEvent >= 1 /\ nLegacy >= 1


(***************************************************************************)
(* Properties of the key held in memory                                    *)
(***************************************************************************)
\* alerts of an unlock that did not succeed
UnlockRefusals == {"Unlock failed", "Vault not initialized", "Biometric failed", "Error"}

\* C26: in every reachable state of the app the vault is locked exactly
\* when no master key is held; after a lock or a panic wipe no key is held,
\* and after an unlock that was refused no key is held.
C26_LockedIffNoKey ==
    /\ locked <=> masterKeyHex = Null
    /\ lastOp.op \in {"lock", "panicWipe"} => masterKeyHex = Null
    /\ (lastOp.op = "unlock" /\ alert \in UnlockRefusals) => masterKeyHex = Null

C26_Witness ==
    /\ lastOp.op = "unlock" /\ alert = "Unlock failed"
    /\ locked /\ masterKeyHex = Null
    /\ \E j \in 1..Len(Log) : Log[j].event = "locked"


(***************************************************************************)
(* Properties of a chain with a block removed                              *)
(***************************************************************************)
\* C27: when one block has been removed from a chain of two or more blocks
\* that verified, at whatever position, the next verifyChain reports at
\* least one break.  The walk starts from prevHash null and ends at the
\* last stored block, so a chain cut short at its newest end still
\* verifies: TLC finds this violated.
C27_DeletionDetected ==
    (lastOp.op = "verifyChain" /\ tampered.seq # 0 /\ tampered.fresh)
        => verification.breaks >= 1


(***************************************************************************)
(* Properties of the canonical string                                      *)
(***************************************************************************)
\* C28: a block whose hashed fields were rewritten to different values has a
\* different canonical string than before.  The string joins `value || ""`
\* with "|": an absent id and an empty one give the same text, and so do
\* detail "x|y" with id "z" and detail "x" with id "y|z".  TLC finds this
\* violated.
C28_CanonicalInjective ==
    [][lastOp'.op = "rewrite"
       => \A j \in 1..Len(Log) :
             Log'[j] # Log[j]
             => canonicalStringForBlock(Log'[j]) # canonicalStringForBlock(Log[j])]_vars

\* the same with absent and empty values taken as equal
CanonicalInjectiveOnText ==
    [][lastOp'.op = "rewrite"
       => \A j \in 1..Len(Log) :
             <<Or(Log'[j].detail, ""), Or(Log'[j].id, "")>>
                 # <<Or(Log[j].detail, ""), Or(Log[j].id, "")>>
             => canonicalStringForBlock(Log'[j]) # canonicalStringForBlock(Log[j])]_vars


====
